---- MODULE Spec2Model ----
(***************************************************************************)
(* Model of kombine's ensemble sampler (src/kombine/sampler.py).           *)
(*                                                                         *)
(* The sampler object holds the iteration counter, the current proposal    *)
(* (_kde) and four history arrays.  Sampler.sample is modelled as a call   *)
(* frame: SampleBegin/SampleRaises are lines 95-122, one Step* action is   *)
(* one pass of the loop body (lines 126-163), Return is line 165.          *)
(*                                                                         *)
(* Arrays are sequences indexed 1..n, so python slot t is index t+1.       *)
(* Floats are records: finite values are integer valued, which every       *)
(* numpy float dtype represents exactly, and nan / inf / -inf follow       *)
(* IEEE-754.                                                               *)
(***************************************************************************)
EXTENDS Integers, Sequences, FiniteSets

\* ------------------------------------------------------------------ bounds
\* A run call asks for 1..MaxIterations steps.
MaxIterations == 2
\* update_interval ranges over 1..MaxInterval.
MaxInterval == 2
\* Run calls are only started while the history fits in MaxHistory slots.
MaxHistory == 2

\* ------------------------------------------------- constructor parameters
nwalkers == 2
dim == 1

Walkers == 1..nwalkers

\* ------------------------------------------------------------------ floats
Num(n) == [k |-> "num", v |-> n]
NaN == [k |-> "nan", v |-> 0]
PosInf == [k |-> "inf", v |-> 0]
NegInf == [k |-> "ninf", v |-> 0]
Zero == Num(0)

FAdd(a, b) ==
    IF a.k = "nan" \/ b.k = "nan" THEN NaN
    ELSE IF a.k = "num" /\ b.k = "num" THEN Num(a.v + b.v)
    ELSE IF a.k = "num" THEN b
    ELSE IF b.k = "num" THEN a
    ELSE IF a.k = b.k THEN a
    ELSE NaN

FNeg(a) ==
    IF a.k = "num" THEN Num(0 - a.v)
    ELSE IF a.k = "inf" THEN NegInf
    ELSE IF a.k = "ninf" THEN PosInf
    ELSE NaN

FSub(a, b) == FAdd(a, FNeg(b))

\* a > b on floats: false whenever either side is nan.
FGt(a, b) ==
    IF a.k = "nan" \/ b.k = "nan" THEN FALSE
    ELSE IF a.k = "num" /\ b.k = "num" THEN a.v > b.v
    ELSE IF a.k = "inf" THEN b.k # "inf"
    ELSE IF a.k = "ninf" THEN FALSE
    ELSE b.k = "ninf"

\* ------------------------------------------------------------- optionals
None == [some |-> FALSE, val |-> <<>>]
Some(x) == [some |-> TRUE, val |-> x]

\* ------------------------------------------------------------- positions
\* Two distinguishable values per coordinate: 0 (what np.zeros holds) and 1.
Coordinates == {0, 1}
Position == [1..dim -> Coordinates]
ZeroPosition == [d \in 1..dim |-> 0]
Coord(x) == x[1]

\* np.zeros((n, nwalkers, dim)) and np.zeros((n, nwalkers))
ZeroRowP == [w \in Walkers |-> ZeroPosition]
ZeroRowF == [w \in Walkers |-> Zero]
ZeroRowA == [w \in Walkers |-> 0]
ZerosP(n) == [j \in 1..n |-> ZeroRowP]
ZerosF(n) == [j \in 1..n |-> ZeroRowF]
\* Mutation of ZerosA: the acceptance block is allocated one row too long.
ZerosA_ExtraRow(n) == [j \in 1..(n + 1) |-> ZeroRowA]
ZerosA(n) == [j \in 1..n |-> ZeroRowA]

\* numpy broadcasting along the walker axis: an axis of length 1 is read
\* as if its one entry were repeated.
At(a, w) == IF Len(a) = 1 THEN a[1] ELSE a[w]
Bcast(a) == [w \in Walkers |-> At(a, w)]

\* ------------------------------------------------------------ evaluators
\* The log-prior and log-likelihood callables given to the constructor.
\*   "flat"    : 0 everywhere
\*   "box"     : -inf where x < 1 (outside the support), 0 elsewhere
\*   "slope"   : -x
\*   "partial" : raises where x >= 1 (outside its domain), else 0
PriorFns == {"flat", "box"}
LikeFns == {"slope", "partial"}

EvalAt(fn, x) ==
    IF fn = "flat" THEN Zero
    ELSE IF fn = "box" THEN (IF Coord(x) < 1 THEN NegInf ELSE Zero)
    ELSE IF fn = "slope" THEN Num(0 - Coord(x))
    ELSE Zero

RaisesAt(fn, x) == fn = "partial" /\ Coord(x) >= 1

\* One batched call fn(ps) -> array of len(ps) values; it raises when any
\* row is outside the callable's domain.
EvalBatch(fn, ps) == [w \in 1..Len(ps) |-> EvalAt(fn, ps[w])]
EvalRaises(fn, ps) == \E w \in 1..Len(ps) : RaisesAt(fn, ps[w])

\* -------------------------------------------------------------- proposal
\* OptimizedKDE(p, pool): the proposal is identified by the ensemble it was
\* fitted to.  Its log-density at x is (number of training points at x)
\* minus (number of training points); draw(N) may return any N positions.
KDEBuild(ps) == Some(ps)
KDELogPdf(data, x) == Num(Cardinality({j \in 1..Len(data) : data[j] = x}) - Len(data))
KDEBatch(k, ps) == [w \in 1..Len(ps) |-> KDELogPdf(k.val, ps[w])]
KDEDraws == [Walkers -> Position]

\* lines 112, 132, 163: self._kde(ps), the proposal's log-density at each row
\* Mutation of Score: the densities are taken at the origin instead of at
\* the rows given.
Score_AtOrigin(k, ps) == [w \in 1..Len(ps) |-> KDELogPdf(k.val, ZeroPosition)]
Score(k, ps) == KDEBatch(k, ps)

\* ------------------------------------------------------------------- state
VARIABLES
    \* Sampler object (lines 29-45)
    lnpriorfn, lnlikefn, iterations, kde, chain, lnpost, lnprop, accepted,
    \* Sampler.sample: arguments (the caller's objects)
    p0, lnprior0, lnlike0, lnq0, niter, update_interval,
    \* Sampler.sample: locals; pc is "idle" outside a call, "loop" inside
    pc, i, p, lnprior, lnlike, lnq, lnq_is_lnq0,
    \* which of lnprior, lnlike, lnq are 2-d arrays of shape (nwalkers, dim)
    \* rather than 1-d arrays; the sequences hold their entries in order
    two_d,
    p_p, lnprior_p, lnlike_p, lnq_p, ln_mh_ratio, acc,
    \* what the caller observes: how the last call ended and what it returned
    outcome, ret,
    \* instrumentation: sampler state when the current/last call started,
    \* number of OptimizedKDE constructions, log of the completed steps,
    \* number of times the call in progress has called self._get_lnprior
    \* and self._get_lnlike
    pre, nbuilds, completed, prior_calls, like_calls,
    \* the contents of the caller's four arrays when the call in progress
    \* was entered
    entry_args,
    \* whether some call so far has raised at line 154 or 155, after line
    \* 153 had written the slot at the counter
    partial_store

sampler == <<iterations, kde, chain, lnpost, lnprop, accepted>>
fns == <<lnpriorfn, lnlikefn>>
args == <<p0, lnprior0, lnlike0, lnq0, niter, update_interval>>
locals == <<i, p, lnprior, lnlike, lnq, lnq_is_lnq0, two_d>>
temps == <<p_p, lnprior_p, lnlike_p, lnq_p, ln_mh_ratio, acc>>
calls == <<prior_calls, like_calls>>
vars == <<sampler, fns, args, pc, locals, temps, outcome, ret, pre, nbuilds, completed,
          calls, entry_args, partial_store>>

\* The caller's four arrays.
CallerArrays == [p0 |-> p0, lnprior0 |-> lnprior0, lnlike0 |-> lnlike0, lnq0 |-> lnq0]

Snapshot == [iterations |-> iterations, kde |-> kde, chain |-> chain,
             lnpost |-> lnpost, lnprop |-> lnprop, accepted |-> accepted]

\* Sampler.__init__
Init ==
    /\ lnpriorfn \in PriorFns
    /\ lnlikefn \in LikeFns
    /\ iterations = 0
    /\ kde = None
    /\ accepted = <<>>
    /\ chain = <<>>
    /\ lnpost = <<>>
    /\ lnprop = <<>>
    /\ p0 = <<>> /\ lnprior0 = None /\ lnlike0 = None /\ lnq0 = None
    /\ niter = 0 /\ update_interval = 1
    /\ pc = "idle" /\ i = 0
    /\ p = <<>> /\ lnprior = <<>> /\ lnlike = <<>> /\ lnq = <<>>
    /\ lnq_is_lnq0 = FALSE
    /\ two_d = {}
    /\ p_p = <<>> /\ lnprior_p = <<>> /\ lnlike_p = <<>> /\ lnq_p = <<>>
    /\ ln_mh_ratio = <<>> /\ acc = <<>>
    /\ outcome = "none" /\ ret = None
    /\ pre = Snapshot
    /\ nbuilds = 0
    /\ completed = <<>>
    /\ prior_calls = 0
    /\ like_calls = 0
    /\ entry_args = CallerArrays
    /\ partial_store = FALSE

\* ----------------------------------------------------------- call inputs
\* Initial-position arrays with a row too many and with a single row.
WrongP0 == [w \in 1..(nwalkers + 1) |-> ZeroPosition]
OneRowP0 == <<ZeroPosition>>
\* Every walker away from the origin.
OnesRowP == [w \in Walkers |-> [d \in 1..dim |-> 1]]

\* Optional scalar arrays: an array of zeros on a first call, the array the
\* previous call returned afterwards; WrongRowF is one element too long
\* and OneF has a single element.
WrongRowF == [w \in 1..(nwalkers + 1) |-> Zero]
OneF == <<Zero>>
RetWellShaped ==
    /\ ret.some
    /\ Len(ret.val.p) = nwalkers
    /\ Len(ret.val.lnprior) = nwalkers
    /\ Len(ret.val.lnlike) = nwalkers
    /\ Len(ret.val.lnq) = nwalkers
Given(field) == IF RetWellShaped THEN Some(ret.val[field]) ELSE Some(ZeroRowF)

\* The positions a caller that supplies all three arrays starts from: the
\* origin, or the positions the previous call returned.
Resumed == {ZeroRowP} \cup (IF RetWellShaped THEN {ret.val.p} ELSE {})

\* The (p0, lnprior0, lnlike0, lnq0) of a call, and as fifth component the
\* set of optional arrays that are given as 2-d arrays.  A well-shaped call
\* supplies none of the optional arrays, from any initial positions; or all
\* three, from the origin or from the positions the previous call returned;
\* or only log-priors or only log-likelihoods of zero, from the origin.
WellShapedCalls ==
    { <<ps, None, None, None, {}>> : ps \in [Walkers -> Position] }
        \cup { <<ps, Given("lnprior"), Given("lnlike"), Given("lnq"), {}>> :
                    ps \in Resumed }
        \cup { <<ZeroRowP, Some(ZeroRowF), None, None, {}>>,
               <<ZeroRowP, None, Some(ZeroRowF), None, {}>> }
\* A malformed call has one array that is not of shape (nwalkers, dim) for
\* p0 or (nwalkers,) for a scalar array: a row too many, a single row or
\* element, or a scalar array of shape (nwalkers, dim), which is the shape
\* the docstring (lines 56-72) asks for.
MalformedCalls ==
    { <<WrongP0, None, None, None, {}>>,
      <<WrongP0, Some(ZeroRowF), Some(ZeroRowF), Some(ZeroRowF), {}>>,
      <<ZeroRowP, Some(WrongRowF), None, None, {}>>,
      <<OneRowP0, None, None, None, {}>>,
      <<ZeroRowP, Some(OneF), None, None, {}>>,
      <<ZeroRowP, None, None, Some(OneF), {}>>,
      <<OnesRowP, Some(ZeroRowF), None, None, {"lnprior"}>>,
      <<OnesRowP, None, None, Some(ZeroRowF), {"lnq"}>> }
CallInputs == WellShapedCalls \cup MalformedCalls

\* The frame is gone once the call has returned or raised.
ClearFrame ==
    /\ pc' = "idle"
    /\ p0' = <<>> /\ lnprior0' = None /\ lnlike0' = None /\ lnq0' = None
    /\ niter' = 0 /\ update_interval' = 1
    /\ i' = 0
    /\ p' = <<>> /\ lnprior' = <<>> /\ lnlike' = <<>> /\ lnq' = <<>>
    /\ lnq_is_lnq0' = FALSE
    /\ two_d' = {}
    /\ p_p' = <<>> /\ lnprior_p' = <<>> /\ lnlike_p' = <<>> /\ lnq_p' = <<>>
    /\ ln_mh_ratio' = <<>> /\ acc' = <<>>
    /\ prior_calls' = 0 /\ like_calls' = 0
    /\ entry_args' = CallerArrays'

\* ------------------------------------------------- sample: lines 95-122
\* line 98-99: build a proposal if one doesn't already exist
\* Mutation of KdeAtEntry: every call fits a proposal to its p0.
KdeAtEntry_Always(ps) == KDEBuild(ps)
KdeAtEntry(ps) == IF kde.some THEN kde ELSE KDEBuild(ps)

InitialRaises(ps, lp0, ll0) ==
    \/ (~lp0.some /\ EvalRaises(lnpriorfn, ps))
    \/ (~ll0.some /\ EvalRaises(lnlikefn, ps))

\* lines 105-109: the evaluator is called on p0 when no array was supplied
\* Mutation of InitialCalls: the evaluator is called on p0 in every case.
InitialCalls_Always(given) == 1
InitialCalls(given) == IF given.some THEN 0 ELSE 1

\* lines 115-122: the four np.concatenate calls
\* Mutation of Grow: one slot more than requested is appended.
Grow_OneMore(hist, zeros) == hist \o zeros \o <<zeros[1]>>
\* Mutation of Grow: the new block goes in front of the history.
Grow_Prepend(hist, zeros) == zeros \o hist
\* Mutation of Grow: the history is replaced by the new block.
Grow_Reset(hist, zeros) == zeros
Grow(hist, zeros) == hist \o zeros

SampleBegin(ps, lp0, ll0, lq0, cols, n, m) ==
    /\ pc = "idle"
    /\ ~InitialRaises(ps, lp0, ll0)
    /\ pre' = Snapshot
    /\ p0' = ps /\ lnprior0' = lp0 /\ lnlike0' = ll0 /\ lnq0' = lq0
    /\ entry_args' = CallerArrays'
    /\ niter' = n /\ update_interval' = m
    /\ p' = ps
    /\ kde' = KdeAtEntry(ps)
    /\ nbuilds' = IF kde.some THEN nbuilds ELSE nbuilds + 1
    /\ lnprior' = IF lp0.some THEN lp0.val ELSE EvalBatch(lnpriorfn, ps)
    /\ prior_calls' = InitialCalls(lp0)
    /\ lnlike' = IF ll0.some THEN ll0.val ELSE EvalBatch(lnlikefn, ps)
    /\ like_calls' = InitialCalls(ll0)
    /\ lnq' = IF lq0.some THEN lq0.val ELSE Score(kde', ps)
    /\ lnq_is_lnq0' = lq0.some
    /\ two_d' = cols
    /\ chain' = Grow(chain, ZerosP(n))
    /\ lnpost' = Grow(lnpost, ZerosF(n))
    /\ lnprop' = Grow(lnprop, ZerosF(n))
    /\ accepted' = Grow(accepted, ZerosA(n))
    /\ i' = 0
    /\ pc' = "loop"
    /\ outcome' = "running"
    /\ UNCHANGED <<fns, iterations, temps, ret, completed, partial_store>>

\* lines 95-109 when the prior or likelihood callable raises on p0
SampleRaises(ps, lp0, ll0, lq0, n, m) ==
    /\ pc = "idle"
    /\ InitialRaises(ps, lp0, ll0)
    /\ pre' = Snapshot
    /\ kde' = KdeAtEntry(ps)
    /\ nbuilds' = IF kde.some THEN nbuilds ELSE nbuilds + 1
    /\ outcome' = "evaluator_error"
    /\ UNCHANGED <<fns, iterations, chain, lnpost, lnprop, accepted, args, pc,
                   locals, temps, ret, completed, calls, entry_args, partial_store>>

\* ------------------------------------------------ sample: lines 126-163
\* line 135, per walker, in numpy's left-to-right order
\* Mutation of MHRatio: the proposal-density correction has its sign flipped.
MHRatio_FlippedCorrection(lp_p, ll_p, lp, ll, q, q_p) ==
    FAdd(FSub(FSub(FSub(FAdd(lp_p, ll_p), lp), ll), q), q_p)
MHRatio(lp_p, ll_p, lp, ll, q, q_p) ==
    FSub(FAdd(FSub(FSub(FAdd(lp_p, ll_p), lp), ll), q), q_p)

\* line 138
AcceptOutright(ratio) == FGt(ratio, Zero)

\* lines 141-143: the walkers not accepted outright, in index order, are
\* compared with one log-uniform variate each (worse[j] gets logu[j]).
Worse(ratios) == {w \in 1..Len(ratios) : ~AcceptOutright(ratios[w])}
Rank(ratios, w) == Cardinality({v \in Worse(ratios) : v <= w})
\* Mutation of AcceptMask: a walker is rejected only when its ratio is
\* below the variate (written as "not logu > ratio"), which lets nan pass.
AcceptMask_NotBelow(ratios, logu) ==
    [w \in 1..Len(ratios) |->
        IF AcceptOutright(ratios[w]) THEN TRUE
        ELSE ~FGt(logu[Rank(ratios, w)], ratios[w])]
AcceptMask(ratios, logu) ==
    [w \in 1..Len(ratios) |->
        IF AcceptOutright(ratios[w]) THEN TRUE
        ELSE FGt(ratios[w], logu[Rank(ratios, w)])]

\* np.log(np.random.rand()): rand() is in [0, 1), so the log is -inf or a
\* negative number.  Ratios are integer valued, so -1 stands for every
\* finite variate in [-1, 0) and -inf accepts every finite ratio.
LogUniforms == {NegInf, Num(0 - 1)}

\* lines 146-150: masked assignment
\* Mutation of Masked: every walker takes the candidate value.
Masked_All(mask, cur, cand) == [w \in 1..Len(cur) |-> cand[w]]
Masked(mask, cur, cand) ==
    [w \in 1..Len(cur) |-> IF mask[w] THEN cand[w] ELSE cur[w]]

\* line 156: the boolean mask stored into a float array
\* Mutation of Flags: the "worse" mask is stored instead of the decisions.
Flags_Inverted(mask) == [w \in 1..Len(mask) |-> IF mask[w] THEN 0 ELSE 1]
Flags(mask) == [w \in 1..Len(mask) |-> IF mask[w] THEN 1 ELSE 0]

\* lines 153-156: the slot written is self.iterations
\* Mutation of StoreSlot: the row goes to the last slot of the history.
StoreSlot_Last(hist, row) == [hist EXCEPT ![Len(hist)] = Bcast(row)]
StoreSlot(hist, row) == [hist EXCEPT ![iterations + 1] = Bcast(row)]

\* line 154: lnprior + lnlike, as the row it is stored in
\* Mutation of LnPostRow: the log-likelihood is left out of the record.
LnPostRow_PriorOnly(lp, ll) == [w \in 1..Len(lp) |-> lp[w]]
LnPostRow(lp, ll) == [w \in Walkers |-> FAdd(At(lp, w), At(ll, w))]

\* line 161
\* Mutation of UpdateDue: the counter is tested before its increment.
UpdateDue_BeforeIncrement(count, m) == (count - 1) % m = 0
UpdateDue(count, m) == count % m = 0

\* ---------------------------------------------------------------- shapes
\* The candidate arrays have shape (nwalkers,).  A 1-d working array takes
\* part in line 135 with length nwalkers or, by broadcasting, with length
\* 1; any other length raises ValueError there.  A 2-d working array has
\* shape (nwalkers, dim) with dim = 1 and broadcasts against the
\* candidates to a ratio of shape (nwalkers, nwalkers).
BroadcastError ==
    \/ Len(lnprior) \notin {1, nwalkers}
    \/ Len(lnlike) \notin {1, nwalkers}
    \/ Len(lnq) \notin {1, nwalkers}

\* The working arrays have the shapes the call's preconditions ask for:
\* (nwalkers, dim) for the positions, (nwalkers,) for the three scalars.
WellShaped ==
    /\ two_d = {}
    /\ Len(p) = nwalkers
    /\ Len(lnprior) = nwalkers
    /\ Len(lnlike) = nwalkers
    /\ Len(lnq) = nwalkers

RatioRows == IF two_d = {} THEN 1 ELSE nwalkers

\* Entry (r, c) of a working array in the broadcast of line 135.
Element(name, a, r, c) == IF name \in two_d THEN At(a, r) ELSE At(a, c)

\* line 135: ln_mh_ratio, in row-major order (a sequence of nwalkers
\* ratios when every working array is 1-d)
Ratios(lp_p, ll_p, lq_p) ==
    IF WellShaped
    THEN [w \in Walkers |->
            MHRatio(lp_p[w], ll_p[w], lnprior[w], lnlike[w], lnq[w], lq_p[w])]
    ELSE [k \in 1..(RatioRows * nwalkers) |->
            LET r == ((k - 1) \div nwalkers) + 1
                c == ((k - 1) % nwalkers) + 1
                lp == Element("lnprior", lnprior, r, c)
                ll == Element("lnlike", lnlike, r, c)
                lq == Element("lnq", lnq, r, c)
            IN  MHRatio(lp_p[c], ll_p[c], lp, ll, lq, lq_p[c])]

\* line 146
AnyAccepted(mask) == \E k \in 1..Len(mask) : mask[k]

\* The line of the pass at which the shapes raise once line 135 has been
\* passed, 0 when the pass completes.  Lines 147-150 run only when some
\* entry of acc is set, and a boolean mask must have the shape of the
\* array it indexes (IndexError); lines 153-155 broadcast the value into
\* a row of the history (ValueError when it does not fit).
ShapeErrorLine(mask) ==
    IF AnyAccepted(mask) /\ (two_d # {} \/ Len(p) # nwalkers) THEN 147
    ELSE IF AnyAccepted(mask) /\ Len(lnprior) # nwalkers THEN 148
    ELSE IF AnyAccepted(mask) /\ Len(lnlike) # nwalkers THEN 149
    ELSE IF AnyAccepted(mask) /\ Len(lnq) # nwalkers THEN 150
    ELSE IF Len(p) \notin {1, nwalkers} THEN 153
    ELSE IF "lnprior" \in two_d \/ "lnlike" \in two_d THEN 154
    ELSE IF "lnq" \in two_d THEN 155
    ELSE 0

CandidateRaises(cand) ==
    EvalRaises(lnpriorfn, cand) \/ EvalRaises(lnlikefn, cand)

StepOk(cand, logu) ==
    /\ pc = "loop"
    /\ i < niter
    /\ ~CandidateRaises(cand)
    /\ ~BroadcastError
    /\ p_p' = cand
    /\ lnprior_p' = EvalBatch(lnpriorfn, cand)
    /\ prior_calls' = prior_calls + 1
    /\ lnlike_p' = EvalBatch(lnlikefn, cand)
    /\ like_calls' = like_calls + 1
    /\ lnq_p' = Score(kde, cand)
    /\ ln_mh_ratio' = Ratios(lnprior_p', lnlike_p', lnq_p')
    /\ acc' = AcceptMask(ln_mh_ratio', logu)
    /\ ShapeErrorLine(acc') = 0
    /\ p' = Masked(acc', p, p_p')
    /\ lnprior' = Masked(acc', lnprior, lnprior_p')
    /\ lnlike' = Masked(acc', lnlike, lnlike_p')
    /\ LET lnq_acc == Masked(acc', lnq, lnq_p')
       IN  /\ chain' = StoreSlot(chain, p')
           /\ lnpost' = StoreSlot(lnpost, LnPostRow(lnprior', lnlike'))
           /\ lnprop' = StoreSlot(lnprop, lnq_acc)
           /\ accepted' = StoreSlot(accepted, Flags(acc'))
           /\ completed' = Append(completed,
                 [p |-> Bcast(p'), lnpost |-> LnPostRow(lnprior', lnlike'),
                  lnprop |-> Bcast(lnq_acc), accepted |-> Flags(acc')])
           /\ iterations' = iterations + 1
           /\ IF UpdateDue(iterations', update_interval)
              THEN /\ kde' = KDEBuild(p')
                   /\ nbuilds' = nbuilds + 1
                   /\ lnq' = Score(kde', p')
                   /\ lnq_is_lnq0' = FALSE
                   /\ lnq0' = IF lnq_is_lnq0 THEN Some(lnq_acc) ELSE lnq0
              ELSE /\ kde' = kde
                   /\ nbuilds' = nbuilds
                   /\ lnq' = lnq_acc
                   /\ lnq_is_lnq0' = lnq_is_lnq0
                   /\ lnq0' = IF lnq_is_lnq0 THEN Some(lnq_acc) ELSE lnq0
    \* lnprior and lnlike are the caller's arrays when they were supplied
    /\ lnprior0' = IF lnprior0.some THEN Some(lnprior') ELSE lnprior0
    /\ lnlike0' = IF lnlike0.some THEN Some(lnlike') ELSE lnlike0
    /\ i' = i + 1
    /\ UNCHANGED <<fns, p0, niter, update_interval, pc, outcome, ret, pre, entry_args,
                   two_d, partial_store>>

\* lines 126-131 when the prior or likelihood callable raises on the
\* candidates: the exception leaves sample()
StepEvaluatorRaises(cand) ==
    /\ pc = "loop"
    /\ i < niter
    /\ CandidateRaises(cand)
    /\ ClearFrame
    /\ outcome' = "evaluator_error"
    /\ UNCHANGED <<sampler, fns, ret, pre, nbuilds, completed, partial_store>>

\* The line at which the pass over the candidates cand raises with the
\* variates logu, 0 when it completes.
RaisingLine(cand, logu) ==
    IF BroadcastError THEN 135
    ELSE ShapeErrorLine(AcceptMask(Ratios(EvalBatch(lnpriorfn, cand),
                                          EvalBatch(lnlikefn, cand),
                                          Score(kde, cand)), logu))

\* lines 126-155 when an array has the wrong shape: ValueError at line 135,
\* IndexError at lines 147-150 or ValueError at lines 153-155.  Line 154
\* raises after line 153 has written the positions into the slot, and line
\* 155 after line 154 has written lnprior + lnlike as well.  What lines
\* 147-149 wrote before an IndexError went into the call's working arrays,
\* which are not part of the state once the call has raised.
StepShapeError(cand, logu) ==
    /\ pc = "loop"
    /\ i < niter
    /\ ~CandidateRaises(cand)
    /\ \E line \in {RaisingLine(cand, logu)} :
           /\ line # 0
           /\ chain' = IF line \in {154, 155} THEN StoreSlot(chain, p) ELSE chain
           /\ lnpost' = IF line = 155
                        THEN StoreSlot(lnpost, LnPostRow(lnprior, lnlike))
                        ELSE lnpost
           /\ partial_store' = (partial_store \/ line \in {154, 155})
    /\ UNCHANGED <<iterations, kde, lnprop, accepted>>
    /\ ClearFrame
    /\ outcome' = "shape_error"
    /\ UNCHANGED <<fns, ret, pre, nbuilds, completed>>

\* line 165: return p, lnprior, lnlike, lnq
\* Mutation of Returned: the last step's candidates are returned.
Returned_Candidates ==
    [p |-> p_p, lnprior |-> lnprior_p, lnlike |-> lnlike_p, lnq |-> lnq_p]
Returned == [p |-> p, lnprior |-> lnprior, lnlike |-> lnlike, lnq |-> lnq]

Return ==
    /\ pc = "loop"
    /\ i = niter
    /\ ret' = Some(Returned)
    /\ outcome' = "ok"
    /\ ClearFrame
    /\ UNCHANGED <<sampler, fns, pre, nbuilds, completed, partial_store>>

DoSampleBegin ==
    /\ pc = "idle"
    /\ \E n \in 1..MaxIterations :
        /\ Len(chain) + n <= MaxHistory
        /\ \E c \in CallInputs, m \in 1..MaxInterval :
                SampleBegin(c[1], c[2], c[3], c[4], c[5], n, m)

DoSampleRaises ==
    /\ pc = "idle"
    /\ \E n \in 1..MaxIterations :
        /\ Len(chain) + n <= MaxHistory
        /\ \E c \in CallInputs, m \in 1..MaxInterval :
                SampleRaises(c[1], c[2], c[3], c[4], n, m)

\* The number of variates line 143 draws depends on the candidates.
NWorse(cand) ==
    Cardinality(Worse(Ratios(EvalBatch(lnpriorfn, cand),
                             EvalBatch(lnlikefn, cand), Score(kde, cand))))

\* A pass can run to its end only with 1-d working arrays that broadcast
\* at line 135 and positions that fit a slot at line 153: a 2-d working
\* array raises at line 147 or at line 154 or 155.
CanComplete ==
    /\ ~BroadcastError
    /\ two_d = {}
    /\ Len(p) \in {1, nwalkers}

DoStepOk ==
    /\ pc = "loop"
    /\ CanComplete
    /\ \E cand \in KDEDraws :
        \E logu \in [1..NWorse(cand) -> LogUniforms] : StepOk(cand, logu)

DoStepEvaluatorRaises ==
    /\ pc = "loop"
    /\ \E cand \in KDEDraws : StepEvaluatorRaises(cand)

\* Line 135 raises before any variate is drawn; with well-shaped arrays no
\* line raises.
DoStepShapeError ==
    /\ pc = "loop"
    /\ ~WellShaped
    /\ \E cand \in KDEDraws :
        \E logu \in (IF BroadcastError THEN {<<>>}
                     ELSE [1..NWorse(cand) -> LogUniforms]) :
            StepShapeError(cand, logu)

Next ==
    \/ DoSampleBegin
    \/ DoSampleRaises
    \/ DoStepOk
    \/ DoStepEvaluatorRaises
    \/ DoStepShapeError
    \/ Return

Spec == Init /\ [][Next]_vars

\* ------------------------------------------------------- longer histories
\* A second specification with room for one more slot, in which a slot
\* recorded by a call that then failed part-way is followed by a later
\* call.  Its calls give no optional arrays and start from the origin or
\* with every walker at 1; the steps are those of Spec.
LongHistory == MaxHistory + 1
LongCalls == { <<ps, None, None, None, {}>> : ps \in {ZeroRowP, OnesRowP} }

DoSampleBeginLong ==
    /\ pc = "idle"
    /\ \E n \in 1..MaxIterations :
        /\ Len(chain) + n <= LongHistory
        /\ \E c \in LongCalls, m \in 1..MaxInterval :
                SampleBegin(c[1], c[2], c[3], c[4], c[5], n, m)

DoSampleRaisesLong ==
    /\ pc = "idle"
    /\ \E n \in 1..MaxIterations :
        /\ Len(chain) + n <= LongHistory
        /\ \E c \in LongCalls, m \in 1..MaxInterval :
                SampleRaises(c[1], c[2], c[3], c[4], n, m)

NextLong ==
    \/ DoSampleBeginLong
    \/ DoSampleRaisesLong
    \/ DoStepOk
    \/ DoStepEvaluatorRaises
    \/ Return

SpecLong == Init /\ [][NextLong]_vars

\* =================================================================== claims
\* A pass of the loop body ran to its end (lines 126-163).
StepCompleted == pc = "loop" /\ pc' = "loop" /\ i' = i + 1
\* A pass of a call whose arrays have those shapes ran to its end.
StepCompletedWellShaped == StepCompleted /\ WellShaped
\* sample() returns (line 165).
Returns == pc = "loop" /\ pc' = "idle" /\ outcome' = "ok"
\* sample() is entered and reaches the loop.
Begins == pc = "idle" /\ pc' = "loop"

SameLengths ==
    /\ Len(lnpost) = Len(chain)
    /\ Len(lnprop) = Len(chain)
    /\ Len(accepted) = Len(chain)

\* C1: a sample() call with iterations = k >= 1 that returns has increased
\* the iteration counter by exactly k and made each of chain, lnpost,
\* lnprop and accepted exactly k slots longer than when it was entered.
C1_RunAdvancesByK ==
    [][Returns =>
        /\ niter >= 1
        /\ iterations = pre.iterations + niter
        /\ Len(chain) = Len(pre.chain) + niter
        /\ Len(lnpost) = Len(pre.lnpost) + niter
        /\ Len(lnprop) = Len(pre.lnprop) + niter
        /\ Len(accepted) = Len(pre.accepted) + niter]_vars

\* A two-step run has returned, with something recorded in both slots.
C1_Witness ==
    /\ pc = "idle" /\ outcome = "ok"
    /\ iterations = pre.iterations + 2
    /\ Len(chain) = Len(pre.chain) + 2
    /\ chain[iterations] # ZeroRowP
    /\ chain[iterations - 1] # chain[iterations]

\* C2 as stated: in every reachable state the history length equals the
\* iteration counter and the four histories have the same length.
C2_Original ==
    /\ Len(chain) = iterations
    /\ SameLengths

\* C2 amended: the four histories always have the same length and are never
\* shorter than the counter; they equal the counter after construction;
\* inside a run the surplus is the surplus found at entry plus the steps
\* not yet completed; a run that returns leaves the surplus it found.
C2_Amended ==
    /\ SameLengths
    /\ Len(chain) >= iterations
    /\ (outcome = "none" => Len(chain) = iterations)
    /\ (pc = "loop" =>
            Len(chain) - iterations
                = (Len(pre.chain) - pre.iterations) + (niter - i))
    /\ (pc = "idle" /\ outcome = "ok" =>
            Len(chain) - iterations = Len(pre.chain) - pre.iterations)
    /\ (pc = "idle" /\ outcome = "ok" /\ Len(pre.chain) = pre.iterations =>
            Len(chain) = iterations)

\* A one-step run has returned on a sampler where an earlier one-step run
\* had failed: counter 1, history 2.
C2_Witness ==
    /\ pc = "idle" /\ outcome = "ok"
    /\ Len(pre.chain) = pre.iterations + 1
    /\ iterations = pre.iterations + 1
    /\ Len(chain) = iterations + 1

\* C3 as stated, for calls whose arrays have the shapes the preconditions
\* ask for: a walker that was not accepted in a step has the same
\* position, log-prior, log-likelihood and log-proposal-density at the end
\* of the step (rebuild included) as at its beginning.
C3_Original ==
    [][StepCompletedWellShaped =>
        \A w \in Walkers :
            ~acc'[w] =>
                /\ p'[w] = p[w]
                /\ lnprior'[w] = lnprior[w]
                /\ lnlike'[w] = lnlike[w]
                /\ lnq'[w] = lnq[w]]_vars

\* C3 amended, for calls whose arrays have the shapes the preconditions
\* ask for: a walker that was not accepted keeps its position, log-prior
\* and log-likelihood through the whole step, and its log-proposal-density
\* through the acceptance update and the history record; at the end of the
\* step the density is unchanged unless the step rebuilds the proposal, in
\* which case it is the new proposal's density at the unchanged position.
C3_Amended ==
    [][StepCompletedWellShaped =>
        \A w \in Walkers :
            ~acc'[w] =>
                /\ p'[w] = p[w]
                /\ lnprior'[w] = lnprior[w]
                /\ lnlike'[w] = lnlike[w]
                /\ lnprop'[iterations'][w] = lnq[w]
                /\ lnq'[w] = IF iterations' % update_interval = 0
                             THEN KDELogPdf(kde'.val, p[w])
                             ELSE lnq[w]]_vars

\* A step that rebuilt the proposal has just ended with a rejected walker
\* whose density was re-scored to a different value.
C3_Witness ==
    /\ pc = "loop" /\ i >= 1
    /\ iterations % update_interval = 0
    /\ \E w \in Walkers :
        /\ ~acc[w]
        /\ lnq[w] # lnprop[iterations][w]

\* C4: the proposal is constructed at the end of a step exactly when the
\* counter after its increment is a multiple of the call's update_interval
\* (so, with one interval m for every call, on steps m, 2m, 3m, ...), from
\* the post-acceptance positions of that step; no other step constructs
\* one, and outside the steps only the first call's entry does.
C4_RebuildSchedule ==
    [][/\ StepCompleted =>
            /\ (nbuilds' = nbuilds + 1) <=> (iterations' % update_interval = 0)
            /\ (nbuilds' = nbuilds) <=> (iterations' % update_interval # 0)
            /\ (nbuilds' # nbuilds => kde' = KDEBuild(p'))
            /\ (nbuilds' = nbuilds => kde' = kde)
       /\ (~StepCompleted /\ nbuilds' # nbuilds) => (pc = "idle" /\ ~kde.some)]_vars

\* With interval 2 the second step has ended with a rebuild from its own
\* positions, the only construction besides the initial one: the first
\* step built nothing.
C4_Witness ==
    /\ pc = "loop" /\ i = 2
    /\ update_interval = 2
    /\ iterations = 2
    /\ nbuilds = 2
    /\ kde = KDEBuild(chain[2])
    /\ chain[2] # chain[1]
    /\ chain[1] # p0

\* The ratio as the claim writes it, (prior + likelihood of the candidate)
\* - (prior + likelihood of the walker) + lnq of the walker - lnq of the
\* candidate, for walker w in the step being taken.
ClaimRatioOf(lp_p, ll_p, lp, ll, q, q_p) ==
    FSub(FAdd(FSub(FAdd(lp_p, ll_p), FAdd(lp, ll)), q), q_p)
ClaimRatio(w) ==
    CHOOSE r \in { ClaimRatioOf(a, b, c, d, e, f) :
                      a \in {lnprior_p'[w]}, b \in {lnlike_p'[w]},
                      c \in {lnprior[w]}, d \in {lnlike[w]},
                      e \in {lnq[w]}, f \in {lnq_p'[w]} } : TRUE

\* C5: in a call whose arrays have the shapes the preconditions ask for,
\* a walker whose log Metropolis-Hastings ratio is greater than 0 is
\* accepted whatever the uniform draw: its position becomes the candidate
\* position, its log-prior, log-likelihood and log-proposal-density become
\* the candidate's (the density as recorded for the step; a rebuild in the
\* same step re-scores it afterwards), and its acceptance flag is set.
C5_PositiveRatioAccepted ==
    [][StepCompletedWellShaped =>
        \A w \in Walkers :
            FGt(ClaimRatio(w), Zero) =>
                /\ acc'[w]
                /\ accepted'[iterations'][w] = 1
                /\ p'[w] = p_p'[w]
                /\ chain'[iterations'][w] = p_p'[w]
                /\ lnprior'[w] = lnprior_p'[w]
                /\ lnlike'[w] = lnlike_p'[w]
                /\ lnprop'[iterations'][w] = lnq_p'[w]
                /\ (iterations' % update_interval # 0 => lnq'[w] = lnq_p'[w])]_vars

\* A step has ended in which one walker had a finite positive ratio and
\* moved to a different position, while the other was rejected.
C5_Witness ==
    /\ pc = "loop" /\ i >= 1
    /\ \E w, v \in Walkers :
        /\ ln_mh_ratio[w].k = "num" /\ ln_mh_ratio[w].v > 0
        /\ acc[w]
        /\ iterations >= 2
        /\ chain[iterations][w] # chain[iterations - 1][w]
        /\ ~acc[v]

\* C6 as stated: a call that fails because a caller-supplied array has the
\* wrong shape leaves the proposal, the iteration counter and the four
\* histories exactly as they were when the call was entered.
C6_FailsBeforeMutation ==
    outcome = "shape_error" => Snapshot = pre

\* C7 as stated: whenever a call follows a call that returned, the state
\* its first step starts from is the state the earlier call returned.
C7_Original ==
    [][(Begins /\ outcome = "ok") =>
        /\ p' = ret.val.p
        /\ lnprior' = ret.val.lnprior
        /\ lnlike' = ret.val.lnlike
        /\ lnq' = ret.val.lnq]_vars

\* Everything recorded so far is still there, slot for slot.
HistoryKept ==
    /\ SubSeq(chain', 1, Len(chain)) = chain
    /\ SubSeq(lnpost', 1, Len(lnpost)) = lnpost
    /\ SubSeq(lnprop', 1, Len(lnprop)) = lnprop
    /\ SubSeq(accepted', 1, Len(accepted)) = accepted

\* C7 amended: the sampler keeps no ensemble state between calls; a call
\* starts from the arrays it is given.  A call that follows a call that
\* returned, and is given the four arrays that call returned, starts its
\* first step from exactly that state; a call given other positions starts
\* from those.  In every case the new slots are appended after the existing
\* history, and the call's steps leave the slots completed before it alone.
C7_Amended ==
    [][/\ Begins =>
            /\ HistoryKept
            /\ Len(chain') = Len(chain) + niter'
            /\ p' = p0'
            /\ (/\ outcome = "ok"
                /\ p0' = ret.val.p
                /\ lnprior0' = Some(ret.val.lnprior)
                /\ lnlike0' = Some(ret.val.lnlike)
                /\ lnq0' = Some(ret.val.lnq))
               => /\ p' = ret.val.p
                  /\ lnprior' = ret.val.lnprior
                  /\ lnlike' = ret.val.lnlike
                  /\ lnq' = ret.val.lnq
       /\ StepCompleted =>
            /\ SubSeq(chain', 1, pre.iterations) = SubSeq(pre.chain, 1, pre.iterations)
            /\ SubSeq(accepted', 1, pre.iterations)
                    = SubSeq(pre.accepted, 1, pre.iterations)
            /\ iterations' > pre.iterations]_vars

\* A second call has been entered with the four arrays the first returned,
\* away from the origin, and has completed a step.
C7_Witness ==
    /\ pc = "loop" /\ i = 1
    /\ ret.some
    /\ pre.iterations >= 1
    /\ p0 = ret.val.p
    /\ p0 # ZeroRowP
    /\ lnprior0.some /\ lnlike0.some /\ lnq0.some
    /\ chain[pre.iterations] = ret.val.p

\* C8: after any sequence of calls, some of which fail part-way because an
\* evaluator raises, the iteration counter is the number of completed
\* steps and every slot below the counter holds the snapshot of the
\* completed step of that index; as long as no call has raised at line 154
\* or 155, between the stores of a pass, every slot at or above the
\* counter is zero-filled.
C8_CounterIsTruth ==
    /\ iterations = Len(completed)
    /\ iterations <= Len(chain)
    /\ \A t \in 1..iterations :
        /\ chain[t] = completed[t].p
        /\ lnpost[t] = completed[t].lnpost
        /\ lnprop[t] = completed[t].lnprop
        /\ accepted[t] = completed[t].accepted
    /\ ~partial_store =>
        \A t \in (iterations + 1)..Len(chain) :
            /\ chain[t] = ZeroRowP
            /\ lnpost[t] = ZeroRowF
            /\ lnprop[t] = ZeroRowF
            /\ accepted[t] = ZeroRowA

\* The likelihood raised in the second step of a two-step call: one step
\* of the call is recorded, one slot is left zero-filled.
C8_Witness ==
    /\ pc = "idle" /\ outcome = "evaluator_error"
    /\ ~partial_store
    /\ iterations = pre.iterations + 1
    /\ Len(chain) = Len(pre.chain) + 2
    /\ accepted[iterations] # ZeroRowA

\* C9: in a call whose arrays have the shapes the preconditions ask for,
\* a walker whose log acceptance ratio is nan is rejected whatever the
\* uniform draw: its flag is 0 and the acceptance update leaves its
\* position, log-prior, log-likelihood and log-proposal-density alone.
C9_NanRejected ==
    [][StepCompletedWellShaped =>
        \A w \in Walkers :
            ClaimRatio(w).k = "nan" =>
                /\ ~acc'[w]
                /\ accepted'[iterations'][w] = 0
                /\ p'[w] = p[w]
                /\ chain'[iterations'][w] = p[w]
                /\ lnprior'[w] = lnprior[w]
                /\ lnlike'[w] = lnlike[w]
                /\ lnprop'[iterations'][w] = lnq[w]]_vars

\* A step has ended in which one walker had a nan ratio and stayed, while
\* another walker was accepted.
C9_Witness ==
    /\ pc = "loop" /\ i >= 1
    /\ \E w, v \in Walkers :
        /\ ln_mh_ratio[w].k = "nan"
        /\ ~acc[w]
        /\ accepted[iterations][w] = 0
        /\ acc[v]

\* C10: in a call whose arrays have the shapes the preconditions ask
\* for, the position recorded for a walker at a completed step is the
\* step's candidate when the recorded flag is set, and otherwise the
\* position recorded at the previous step (the initial position for the
\* first step of a call); the positions a call returns are those of the
\* last completed slot.
C10_ReplayFromFlags ==
    [][/\ StepCompletedWellShaped =>
            \A w \in Walkers :
                chain'[iterations'][w] =
                    IF accepted'[iterations'][w] = 1 THEN p_p'[w]
                    ELSE IF i = 0 THEN p0[w]
                    ELSE chain[iterations][w]
       /\ (Returns /\ WellShaped) => ret'.val.p = chain[iterations]]_vars

\* Second step of a run: a walker accepted in the first step and rejected
\* in the second is recorded where the first step put it, away from its
\* initial position and from the second candidate.
C10_Witness ==
    /\ pc = "loop" /\ i = 2
    /\ \E w \in Walkers :
        /\ accepted[iterations - 1][w] = 1
        /\ accepted[iterations][w] = 0
        /\ chain[iterations][w] = chain[iterations - 1][w]
        /\ chain[iterations][w] # p0[w]
        /\ chain[iterations][w] # p_p[w]

\* The sum of two scalars as the claim writes it.
ClaimSum(x, y) == CHOOSE r \in { FAdd(a, b) : a \in {x}, b \in {y} } : TRUE

\* C11: in a call whose arrays have the shapes the preconditions ask
\* for, for every completed step and every walker, the lnpost entry
\* recorded at that step is the sum of the walker's log-prior and
\* log-likelihood after the step's acceptance update: the candidate's two
\* values if the walker was accepted, the values it had before the step if
\* it was rejected.
C11_LnPostIsSum ==
    [][StepCompletedWellShaped =>
        \A w \in Walkers :
            /\ lnpost'[iterations'][w] = ClaimSum(lnprior'[w], lnlike'[w])
            /\ lnpost'[iterations'][w] =
                    IF accepted'[iterations'][w] = 1
                    THEN ClaimSum(lnprior_p'[w], lnlike_p'[w])
                    ELSE ClaimSum(lnprior[w], lnlike[w])]_vars

\* A step has ended with one walker accepted and one rejected, where the
\* recorded sums are non-zero and differ from the log-prior alone.
C11_Witness ==
    /\ pc = "loop" /\ i >= 1
    /\ \E w, v \in Walkers :
        /\ acc[w] /\ ~acc[v]
        /\ lnpost[iterations][w] # Zero
        /\ lnpost[iterations][w] # lnprior[w]
        /\ lnpost[iterations][v] # lnprior[v]

\* The two states of the sampler.
UNINITIALIZED == ~kde.some
RUNNING == kde.some

\* C12: the sampler is UNINITIALIZED exactly until its first sample() call:
\* in that state no call was made, the counter is 0, the four histories are
\* empty, no proposal was built and no evaluator was called.  The first
\* call constructs the proposal, from its p0, and makes the sampler
\* RUNNING; a RUNNING sampler stays RUNNING, a call on it constructs no
\* proposal at its start, and the counter never decreases.
C12_TwoStates ==
    [][/\ UNINITIALIZED =>
            /\ outcome = "none" /\ pc = "idle"
            /\ iterations = 0
            /\ Len(chain) = 0 /\ Len(lnpost) = 0
            /\ Len(lnprop) = 0 /\ Len(accepted) = 0
            /\ nbuilds = 0
            /\ prior_calls = 0 /\ like_calls = 0
            \* the first call
            /\ RUNNING'
            /\ nbuilds' = 1
            /\ (pc' = "loop" => kde' = KDEBuild(p0'))
       /\ RUNNING =>
            /\ RUNNING'
            /\ (pc = "idle" => kde' = kde /\ nbuilds' = nbuilds)
       /\ iterations' >= iterations]_vars

\* A second call has been entered on a RUNNING sampler with initial
\* positions other than those its proposal was fitted to by the first call.
C12_Witness ==
    /\ pc = "loop" /\ i = 0
    /\ RUNNING
    /\ pre.kde.some
    /\ outcome = "running"
    /\ kde = pre.kde
    /\ kde # KDEBuild(p0)
    /\ nbuilds = 1
    /\ Len(pre.chain) >= 1

\* C14: the histories are append-only.  No step of the program makes any
\* of the four histories shorter, and a slot below the counter, that is a
\* slot in which a completed step was recorded, keeps its contents in all
\* four histories through every later step of the same call and through
\* every later call, whether the calls before it returned or failed.
C14_AppendOnly ==
    [][/\ Len(chain') >= Len(chain)
       /\ Len(lnpost') >= Len(lnpost)
       /\ Len(lnprop') >= Len(lnprop)
       /\ Len(accepted') >= Len(accepted)
       /\ \A s \in 1..iterations :
            /\ chain'[s] = chain[s]
            /\ lnpost'[s] = lnpost[s]
            /\ lnprop'[s] = lnprop[s]
            /\ accepted'[s] = accepted[s]]_vars

\* No call has returned so far: a two-step call recorded its first step
\* and failed in its second, leaving one recorded slot and one zero slot.
\* A later call has now completed a step, written in the slot the failed
\* call left, and the slot the failed call recorded is intact.
C14_Witness ==
    /\ pc = "loop" /\ i = 1
    /\ ~ret.some
    /\ pre.iterations = 1
    /\ Len(pre.chain) = 2
    /\ iterations = 2
    /\ Len(chain) = 3
    /\ accepted[1] = pre.accepted[1]
    /\ accepted[1] # ZeroRowA
    /\ lnpost[1] = pre.lnpost[1]
    /\ chain[1] = pre.chain[1]
    /\ accepted[2] # ZeroRowA

\* The log-density the proposal k assigns to position x, as the claim
\* reads it off the proposal object.
ClaimDensity(k, x) ==
    CHOOSE r \in { KDELogPdf(d, y) : d \in {k.val}, y \in {x} } : TRUE

\* C15: in a call that was not given lnq0 and whose arrays have the shapes
\* the preconditions ask for, at the beginning of every step
\* each walker's current log-proposal-density is the log-density the
\* sampler's current proposal assigns to the walker's current position;
\* the candidate densities of the step come from that same proposal; and
\* the same relation holds again at the end of the step, after the
\* acceptance update and after a rebuild.
C15_LnqFromCurrentProposal ==
    [][(StepCompletedWellShaped /\ ~lnq0.some) =>
        \A w \in Walkers :
            /\ lnq[w] = ClaimDensity(kde, p[w])
            /\ lnq_p'[w] = ClaimDensity(kde, p_p'[w])
            /\ lnq'[w] = ClaimDensity(kde', p'[w])]_vars

\* A step of a call without lnq0 has ended with a rebuild that changed the
\* proposal, with one walker accepted at a new position and one rejected
\* whose density was re-scored to a new value.
C15_Witness ==
    /\ pc = "loop" /\ i >= 1
    /\ ~lnq0.some
    /\ iterations % update_interval = 0
    /\ kde # pre.kde
    /\ kde # KDEBuild(p0)
    /\ \E w, v \in Walkers :
        /\ acc[w] /\ p[w] # p0[w]
        /\ ~acc[v]
        /\ lnq[v] # lnprop[iterations][v]

\* C16: after i steps of a call the log-prior evaluator has been called
\* i + 1 times, or i times when the call was given lnprior0, and the
\* log-likelihood evaluator i + 1 times, or i times when the call was given
\* lnlike0, whether or not any of the steps rebuilt the proposal; so a call
\* of k steps that reaches its return has made k + 1 (or k) calls of each.
C16_EvaluatorCalls ==
    pc = "loop" =>
        /\ prior_calls = i + (IF lnprior0.some THEN 0 ELSE 1)
        /\ like_calls = i + (IF lnlike0.some THEN 0 ELSE 1)
        /\ i <= niter

\* A two-step call that was given lnprior0 but not lnlike0 is about to
\* return after a step that rebuilt the proposal.
C16_Witness ==
    /\ pc = "loop" /\ i = niter /\ niter = 2
    /\ lnprior0.some /\ ~lnlike0.some
    /\ prior_calls = 2 /\ like_calls = 3
    /\ kde # pre.kde
    /\ nbuilds >= 2

\* C17 as stated: a call does not modify any array supplied by the caller;
\* when it is about to return, the initial positions and the optional
\* lnprior0, lnlike0 and lnq0 arrays hold the values they held when the
\* call was entered.
C17_CallerArraysKept ==
    (pc = "loop" /\ i = niter) => CallerArrays = entry_args

\* C18 as stated, for calls whose arrays have the shapes the
\* preconditions ask for: after a call that returned, the returned positions are
\* the positions of the last recorded slot, the returned log-prior plus
\* log-likelihood is the lnpost of that slot and the returned
\* log-proposal-density is the lnprop of that slot, also when the last
\* step of the call rebuilt the proposal.
C18_Original ==
    (pc = "idle" /\ outcome = "ok" /\ RetWellShaped) =>
        /\ ret.val.p = chain[iterations]
        /\ \A w \in Walkers :
            /\ ClaimSum(ret.val.lnprior[w], ret.val.lnlike[w]) = lnpost[iterations][w]
            /\ ret.val.lnq[w] = lnprop[iterations][w]

\* C18 amended, for calls whose arrays have the shapes the preconditions
\* ask for: when a call returns, the returned positions are those of
\* the last recorded slot and the returned log-prior plus log-likelihood
\* is that slot's lnpost; the returned log-proposal-density is that slot's
\* lnprop when the last step did not rebuild the proposal, and when it did
\* it is the rebuilt proposal's log-density at the returned positions.
C18_Amended ==
    [][(Returns /\ WellShaped) =>
        /\ iterations >= 1
        /\ ret'.val.p = chain[iterations]
        /\ \A w \in Walkers :
            /\ ClaimSum(ret'.val.lnprior[w], ret'.val.lnlike[w])
                    = lnpost[iterations][w]
            /\ ret'.val.lnq[w] =
                    IF iterations % update_interval = 0
                    THEN ClaimDensity(kde, ret'.val.p[w])
                    ELSE lnprop[iterations][w]]_vars

\* A call has returned whose last step rebuilt the proposal: a returned
\* density differs from the recorded one, while positions and lnpost agree
\* with the last slot, away from zero.
C18_Witness ==
    /\ pc = "idle" /\ outcome = "ok"
    /\ kde = KDEBuild(ret.val.p)
    /\ kde # pre.kde
    /\ ret.val.p = chain[iterations]
    /\ ret.val.p # ZeroRowP
    /\ lnpost[iterations] # ZeroRowF
    /\ \E w \in Walkers : ret.val.lnq[w] # lnprop[iterations][w]

====
